---- MODULE Spec2Model ----
(***************************************************************************)
(* The Fibonacci circuit of example1.rs (three advice columns, one row per *)
(* step: the "wide" layout) and of example2.rs (one advice column, three   *)
(* rows per step: the "narrow" layout), together with the region assigner  *)
(* and the satisfiability checker both programs drive.                     *)
(*                                                                         *)
(* The circuit definition (gate, region bodies, loop, public binding, k)   *)
(* is translated from the two source files.  The region assigner and the   *)
(* checker are called by the source but not part of it: they are modelled  *)
(* from sections 4.2 - 4.5 and 7 of the design document.                   *)
(***************************************************************************)
EXTENDS Integers, Sequences, FiniteSets, TLC

\* ------------------------------------------------------------------ bounds
\* The prime field Fp is modelled by the integers modulo FieldModulus.  Only
\* + and - are applied to witnesses, so any modulus gives a faithful ring; it
\* is kept above 55 so that the encoding of 55 is 55.
FieldModulus == 61
\* Seeds of the circuit are drawn from 0..MaxSeed.
MaxSeed == 2

Field == 0 .. (FieldModulus - 1)
SeedVals == 0 .. MaxSeed

\* ------------------------------------------------------------- the layouts
Layouts == {"wide", "narrow"}
Names == {"a", "b", "c"}

\* Value<F>: a known field element or the unknown witness.
Known(x) == [known |-> TRUE, val |-> x % FieldModulus]
Unknown == [known |-> FALSE, val |-> 0]

\* Value<F> + Value<F>: unknown as soon as one operand is unknown.
ValueAdd(x, y) ==
    IF x.known /\ y.known THEN Known(x.val + y.val) ELSE Unknown

\* The advice column each of a, b, c is assigned to and queried from.
Col(l, n) ==
    IF l = "wide"
    THEN (CASE n = "a" -> 0 [] n = "b" -> 1 [] n = "c" -> 2)
    ELSE 0

\* The mutation: the narrow layout assigns b at relative row 0, like a.
OffsetClash(l, n) ==
    IF l = "wide"
    THEN 0
    ELSE (CASE n = "a" -> 0 [] n = "b" -> 0 [] n = "c" -> 2)

\* The relative row, inside its region, each of a, b, c is assigned at.
Offset(l, n) ==
    IF l = "wide"
    THEN 0
    ELSE (CASE n = "a" -> 0 [] n = "b" -> 1 [] n = "c" -> 2)

\* The mutation: the narrow gate queries rotation 1 twice.
RotationSlip(l, n) ==
    IF l = "wide"
    THEN 0
    ELSE (CASE n = "a" -> 0 [] n = "b" -> 1 [] n = "c" -> 1)

\* The rotation at which the gate queries each of a, b, c.
Rotation(l, n) ==
    IF l = "wide"
    THEN 0
    ELSE (CASE n = "a" -> 0 [] n = "b" -> 1 [] n = "c" -> 2)

\* The mutation: the selector is enabled one row below the region's base.
SelectorOffsetSlip == 0 + 1

\* selector.enable(&mut region, 0)
SelectorOffset == 0

\* The mutation: the gate without its selector factor.
GatePolyUngated(s, a, b, c) == (a + b + FieldModulus - c) % FieldModulus

\* The gate "fibonacci": s * (a + b - c), in the field.
GatePoly(s, a, b, c) == (s * (a + b + FieldModulus - c)) % FieldModulus

\* The advice columns equality is enabled on.
EqualityEnabled(l) == IF l = "wide" THEN {0, 1, 2} ELSE {0}

\* The mutation: the narrow layout run with the wide layout's k.
KSmall(l) == 4

\* let k = ...; in main
K(l) == IF l = "wide" THEN 4 ELSE 5

DomainSize(l) == 2 ^ K(l)
Rows(l) == 0 .. (DomainSize(l) - 1)

\* for _ in 3..10
LoopStart == 3

\* The mutation: the loop stops one iteration early.
LoopEndShort == LoopStart + 6

LoopEnd == 10

\* expose_public(.., prev_c, 0)
ExposeRow == 0

\* ---------------------------------------------------------------- state
VARIABLES
    circuit,    \* FiboCircuit { a, b }: the two seed values
    instance,   \* the public input handed to MockProver::run
    pc,         \* per layout: position of the run
    tbl,        \* per layout: the assignment table, cell -> Value
    sel,        \* per layout: rows at which the selector is enabled
    copies,     \* per layout: recorded copy constraints <<source, copy>>
    binding,    \* per layout: instance bindings <<cell, public index>>
    regions,    \* per layout: the regions placed so far, in call order
    prev,       \* per layout: <<prev_b, prev_c>> of synthesize
    iter,       \* per layout: the loop variable of synthesize
    err,        \* per layout: the structural error that aborted synthesis
    report,     \* per layout: what the checker reported
    tampered,   \* per layout: cells whose stored value was mutated
    disabled    \* per layout: rows whose selector was disabled afterwards

vars == <<circuit, instance, pc, tbl, sel, copies, binding, regions, prev,
          iter, err, report, tampered, disabled>>

\* ------------------------------------------------- the region assigner
\* An AssignedCell: the cell and the value it was assigned.
AssignedCell(cell, value) == [cell |-> cell, value |-> value]

Max(S) == CHOOSE x \in S : \A y \in S : y <= x

\* The rows one region of the layout spans: up to the last relative row its
\* body touches.
RegionHeight(l) == 1 + Max({SelectorOffset} \cup {Offset(l, n) : n \in Names})

\* Regions are placed at successive bases in call order.
NextBase(regs) ==
    IF regs = <<>> THEN 0 ELSE regs[Len(regs)].base + regs[Len(regs)].height

\* The absolute cell a region based at `base` assigns the name n to.
CellOf(l, base, n) == <<Col(l, n), base + Offset(l, n)>>

\* The table t with one more cell.
Extend(t, cell, value) ==
    [c \in (DOMAIN t) \cup {cell} |-> IF c = cell THEN value ELSE t[c]]

\* region.assign_advice / AssignedCell::copy_advice: one write of a region
\* body.  A write outside the row domain, a copy into a column without
\* equality, and a second write of a cell are errors.
ApplyOp(l, base, st, op) ==
    LET cell == CellOf(l, base, op.name) IN
    IF cell[2] \notin Rows(l)
    THEN [st EXCEPT !.err = "RowDomainTooSmall"]
    ELSE IF op.kind = "copy" /\ cell[1] \notin EqualityEnabled(l)
    THEN [st EXCEPT !.err = "EqualityNotEnabled"]
    ELSE IF cell \in DOMAIN st.tbl
    THEN [st EXCEPT !.err = "CellAlreadyAssigned"]
    ELSE [st EXCEPT
            !.tbl = Extend(st.tbl, cell, op.value),
            !.copies = IF op.kind = "copy"
                       THEN @ \cup {<<op.src[1], cell>>}
                       ELSE @]

\* The writes of a region body in program order; the first error aborts.
RECURSIVE ApplyOps(_, _, _, _)
ApplyOps(l, base, st, ops) ==
    IF ops = <<>> \/ st.err # ""
    THEN st
    ELSE ApplyOps(l, base, ApplyOp(l, base, st, Head(ops)), Tail(ops))

\* selector.enable(&mut region, SelectorOffset)
EnableSelector(l, base, st) ==
    IF base + SelectorOffset \notin Rows(l)
    THEN [st EXCEPT !.err = "RowDomainTooSmall"]
    ELSE [st EXCEPT !.sel = @ \cup {base + SelectorOffset}]

AssignOp(n, value) == [kind |-> "assign", name |-> n, value |-> value, src |-> <<>>]
CopyOp(n, from) == [kind |-> "copy", name |-> n, value |-> from.value, src |-> <<from.cell>>]

\* ------------------------------------------------ the circuit definition
\* assign_first_row: c is assigned a + b.
FirstC(a, b) == ValueAdd(a, b)

\* The body of the region "first row".
FirstRowOps(a, b) ==
    <<AssignOp("a", a), AssignOp("b", b), AssignOp("c", FirstC(a, b))>>

\* The mutation: c is assigned twice the previous c.
NextCDoubled(prev_b, prev_c) == ValueAdd(prev_c.value, prev_c.value)

\* The mutation: c is assigned the constant zero.
NextCZero(prev_b, prev_c) == Known(0)

\* assign_row: c is assigned prev_b.value() + prev_c.value().
NextC(prev_b, prev_c) == ValueAdd(prev_b.value, prev_c.value)

\* The mutation: a is assigned the value of prev_b instead of copied from it.
RowOpsUncopied(prev_b, prev_c) ==
    <<AssignOp("a", prev_b.value), CopyOp("b", prev_c),
      AssignOp("c", NextC(prev_b, prev_c))>>

\* The body of the region "next row".
RowOps(prev_b, prev_c) ==
    <<CopyOp("a", prev_b), CopyOp("b", prev_c),
      AssignOp("c", NextC(prev_b, prev_c))>>

\* One call of layouter.assign_region: the region is placed, the selector
\* enabled, and the body's writes applied.
RunRegion(l, ops) ==
    LET base == NextBase(regions[l])
        st0 == [tbl |-> tbl[l], sel |-> sel[l], copies |-> copies[l], err |-> ""]
    IN  ApplyOps(l, base, EnableSelector(l, base, st0), ops)

\* The (b_cell, c_cell) a region body returns.
Returned(l, st) ==
    LET base == NextBase(regions[l])
        bc == CellOf(l, base, "b")
        cc == CellOf(l, base, "c")
    IN  <<AssignedCell(bc, st.tbl[bc]), AssignedCell(cc, st.tbl[cc])>>

\* What every region call leaves behind, whether its body failed or not.
Placed(l, st) ==
    /\ tbl' = [tbl EXCEPT ![l] = st.tbl]
    /\ sel' = [sel EXCEPT ![l] = st.sel]
    /\ copies' = [copies EXCEPT ![l] = st.copies]
    /\ regions' = [regions EXCEPT ![l] =
                      Append(@, [base |-> NextBase(regions[l]),
                                 height |-> RegionHeight(l)])]
    /\ err' = [err EXCEPT ![l] = st.err]

\* FiboCircuit::without_witnesses: the circuit with both seeds unknown.
WithoutWitnesses ==
    /\ \A l \in Layouts : pc[l] \in {"start", "off"}
    /\ circuit.a.known \/ circuit.b.known
    /\ circuit' = [a |-> Unknown, b |-> Unknown]
    /\ UNCHANGED <<instance, pc, tbl, sel, copies, binding, regions, prev,
                   iter, err, report, tampered, disabled>>

\* synthesize, first statement: assign_first_row(self.a, self.b).
AssignFirstRow(l) ==
    /\ pc[l] = "start"
    /\ LET st == RunRegion(l, FirstRowOps(circuit.a, circuit.b)) IN
        /\ Placed(l, st)
        /\ IF st.err = ""
           THEN /\ pc' = [pc EXCEPT ![l] = "loop"]
                /\ prev' = [prev EXCEPT ![l] = Returned(l, st)]
                /\ iter' = [iter EXCEPT ![l] = LoopStart]
           ELSE /\ pc' = [pc EXCEPT ![l] = "failed"]
                /\ UNCHANGED <<prev, iter>>
    /\ UNCHANGED <<circuit, instance, binding, report, tampered, disabled>>

\* synthesize, one iteration of the loop: assign_row(prev_b, prev_c).
AssignRow(l) ==
    /\ pc[l] = "loop"
    /\ iter[l] < LoopEnd
    /\ LET st == RunRegion(l, RowOps(prev[l][1], prev[l][2])) IN
        /\ Placed(l, st)
        /\ IF st.err = ""
           THEN /\ pc' = pc
                /\ prev' = [prev EXCEPT ![l] = Returned(l, st)]
                /\ iter' = [iter EXCEPT ![l] = @ + 1]
           ELSE /\ pc' = [pc EXCEPT ![l] = "failed"]
                /\ UNCHANGED <<prev, iter>>
    /\ UNCHANGED <<circuit, instance, binding, report, tampered, disabled>>

\* The mutation: the cell bound to the public input is prev_b.
ExposedCellB(l) == prev[l][1].cell

\* The cell synthesize binds to the public input: prev_c after the loop.
ExposedCell(l) == prev[l][2].cell

\* synthesize, last statement: expose_public(prev_c, 0).
ExposePublic(l) ==
    /\ pc[l] = "loop"
    /\ iter[l] >= LoopEnd
    /\ binding' = [binding EXCEPT ![l] = @ \cup {<<ExposedCell(l), ExposeRow>>}]
    /\ pc' = [pc EXCEPT ![l] = "synthesized"]
    /\ UNCHANGED <<circuit, instance, tbl, sel, copies, regions, prev, iter,
                   err, report, tampered, disabled>>

\* ------------------------------------------------------------ the checker
\* The value the table holds at a cell; a cell never assigned reads as zero.
CellValue(t, cell) == IF cell \in DOMAIN t THEN t[cell] ELSE Known(0)

\* The cells the gate queries when it is evaluated at row r.
QueryCell(l, r, n) == <<Col(l, n), r + Rotation(l, n)>>
QueryCells(l, r) == {QueryCell(l, r, n) : n \in Names}

\* The selector column as the gate reads it: 1 where enabled, 0 elsewhere.
SelectorValue(s, r) == IF r \in s THEN 1 ELSE 0

\* The gate's polynomial at row r, all its queried cells being known.
GateAt(l, t, s, r) ==
    GatePoly(SelectorValue(s, r),
             CellValue(t, QueryCell(l, r, "a")).val,
             CellValue(t, QueryCell(l, r, "b")).val,
             CellValue(t, QueryCell(l, r, "c")).val)

AllKnown(l, t, r) == \A q \in QueryCells(l, r) : CellValue(t, q).known

\* Rows at which the gate's identity is evaluated and does not vanish.
GateViolations(l, t, s) ==
    {r \in Rows(l) : AllKnown(l, t, r) /\ GateAt(l, t, s, r) # 0}

\* Selector-active rows at which a queried cell is still unknown.
OpenWitnesses(l, t, s) == {r \in Rows(l) : r \in s /\ ~AllKnown(l, t, r)}

\* Copy constraints whose two cells hold different known values.
CopyViolations(t, cp) ==
    {p \in cp : /\ t[p[1]].known /\ t[p[2]].known
                /\ t[p[1]].val # t[p[2]].val}

\* Copy constraints that cannot be decided yet.
OpenCopies(t, cp) == {p \in cp : ~t[p[1]].known \/ ~t[p[2]].known}

\* Public indices the supplied public input is too short for.
OutOfRange(bd, inst) == {b[2] : b \in {x \in bd : x[2] + 1 > Len(inst)}}

\* Public indices whose bound cell differs from the public input.
Mismatches(t, bd, inst) ==
    {b[2] : b \in {x \in bd : /\ x[2] + 1 <= Len(inst)
                              /\ \/ ~t[x[1]].known
                                 \/ t[x[1]].val # inst[x[2] + 1]}}

\* The checker's pass: gates, then copy constraints, then instance bindings;
\* every violation is collected.
Check(l, t, s, cp, bd, inst) ==
    [ConstraintNotSatisfied |-> GateViolations(l, t, s),
     UnresolvedWitness |-> OpenWitnesses(l, t, s),
     CopyConstraintViolated |-> CopyViolations(t, cp),
     UnresolvedCopy |-> OpenCopies(t, cp),
     InstanceMismatch |-> Mismatches(t, bd, inst),
     InstanceIndexOutOfRange |-> OutOfRange(bd, inst)]

NoReport ==
    [ConstraintNotSatisfied |-> {}, UnresolvedWitness |-> {},
     CopyConstraintViolated |-> {}, UnresolvedCopy |-> {},
     InstanceMismatch |-> {}, InstanceIndexOutOfRange |-> {}]

\* The verdict: Satisfied exactly when nothing was reported.
Satisfied(rep) == rep = NoReport

\* main: the prover checks the synthesized table against the public input.
Verify(l) ==
    /\ pc[l] = "synthesized"
    /\ report' = [report EXCEPT ![l] =
                    Check(l, tbl[l], sel[l], copies[l], binding[l], instance)]
    /\ pc' = [pc EXCEPT ![l] = "checked"]
    /\ UNCHANGED <<circuit, instance, tbl, sel, copies, binding, regions,
                   prev, iter, err, tampered, disabled>>

\* ------------------------------------------------------ the specification
\* main's circuit: FiboCircuit { a: Value::known(..), b: Value::known(..) }.
Circuits == {[a |-> Known(x), b |-> Known(y)] : x \in SeedVals, y \in SeedVals}

\* main's public input: a vector of field elements (one, or none at all).
PublicInputs == {<<>>} \cup {<<v>> : v \in Field}

\* let public_input = vec![Fp::from(55)];
MainPublicInput == <<55 % FieldModulus>>

\* The state before synthesis of the layouts in `run`.
Fresh(run) ==
    /\ pc = [l \in Layouts |-> IF l \in run THEN "start" ELSE "off"]
    /\ tbl = [l \in Layouts |-> <<>>]
    /\ sel = [l \in Layouts |-> {}]
    /\ copies = [l \in Layouts |-> {}]
    /\ binding = [l \in Layouts |-> {}]
    /\ regions = [l \in Layouts |-> <<>>]
    /\ prev = [l \in Layouts |-> <<>>]
    /\ iter = [l \in Layouts |-> LoopStart]
    /\ err = [l \in Layouts |-> ""]
    /\ report = [l \in Layouts |-> NoReport]
    /\ tampered = [l \in Layouts |-> {}]
    /\ disabled = [l \in Layouts |-> {}]

\* Both programs are run, side by side, on the same circuit and public input.
Init ==
    /\ circuit \in Circuits
    /\ instance \in PublicInputs
    /\ Fresh(Layouts)

Next ==
    \/ WithoutWitnesses
    \/ \E l \in Layouts : AssignFirstRow(l)
    \/ \E l \in Layouts : AssignRow(l)
    \/ \E l \in Layouts : ExposePublic(l)
    \/ \E l \in Layouts : Verify(l)

Spec == Init /\ [][Next]_vars

\* -------------------------------------------- tampering with a built table
\* The stored value of one assigned cell is replaced by a different field
\* value after synthesis and before checking; selectors are left alone.
Tamper(l) ==
    /\ pc[l] = "synthesized"
    /\ tampered[l] = {}
    /\ \E cell \in DOMAIN tbl[l] : \E v \in Field :
         /\ tbl[l][cell] # Known(v)
         /\ tbl' = [tbl EXCEPT ![l][cell] = Known(v)]
         /\ tampered' = [tampered EXCEPT ![l] = {cell}]
    /\ UNCHANGED <<circuit, instance, pc, sel, copies, binding, regions,
                   prev, iter, err, report, disabled>>

\* The selector is disabled at one row where synthesis had enabled it.
DisableSelector(l) ==
    /\ pc[l] = "synthesized"
    /\ disabled[l] = {}
    /\ \E r \in sel[l] :
         /\ sel' = [sel EXCEPT ![l] = @ \ {r}]
         /\ disabled' = [disabled EXCEPT ![l] = {r}]
    /\ UNCHANGED <<circuit, instance, pc, tbl, copies, binding, regions,
                   prev, iter, err, report, tampered>>

\* One program is run, on a known circuit and main's public input.
InitTamper ==
    /\ circuit \in Circuits
    /\ instance = MainPublicInput
    /\ \E l \in Layouts : Fresh({l})

NextTamper ==
    \/ \E l \in Layouts : AssignFirstRow(l)
    \/ \E l \in Layouts : AssignRow(l)
    \/ \E l \in Layouts : ExposePublic(l)
    \/ \E l \in Layouts : Tamper(l)
    \/ \E l \in Layouts : DisableSelector(l)
    \/ \E l \in Layouts : Verify(l)

SpecTamper == InitTamper /\ [][NextTamper]_vars

\* ------------------------------------------- any assignment to the layout
\* The first region's a and b cells: the seeds of a table.
SeedCells(l) == {CellOf(l, 0, "a"), CellOf(l, 0, "b")}

\* The cells of a table in layout order (by row, then by column).
Rank(cell) == 3 * cell[2] + cell[1]
OpenCells(t) == {c \in DOMAIN t : ~t[c].known}
FirstOpen(t) == CHOOSE c \in OpenCells(t) : \A d \in OpenCells(t) : Rank(c) <= Rank(d)

\* The layout synthesized without witnesses is filled in cell by cell, with
\* any field value (the two seed cells with any seed).  A table in which a
\* gate or copy constraint over filled cells is already violated can never
\* become Satisfied, so only the others are filled further: every Satisfied
\* table over these seeds is reached.
Resolve(l) ==
    /\ pc[l] = "synthesized"
    /\ OpenCells(tbl[l]) # {}
    /\ LET cell == FirstOpen(tbl[l]) IN
       \E v \in (IF cell \in SeedCells(l) THEN SeedVals ELSE Field) :
         LET t == [tbl[l] EXCEPT ![cell] = Known(v)] IN
         /\ GateViolations(l, t, sel[l]) = {}
         /\ CopyViolations(t, copies[l]) = {}
         /\ tbl' = [tbl EXCEPT ![l] = t]
    /\ UNCHANGED <<circuit, instance, pc, sel, copies, binding, regions,
                   prev, iter, err, report, tampered, disabled>>

\* One program is run on the circuit without witnesses.
InitForge ==
    /\ circuit = [a |-> Unknown, b |-> Unknown]
    /\ instance \in PublicInputs
    /\ \E l \in Layouts : Fresh({l})

NextForge ==
    \/ \E l \in Layouts : AssignFirstRow(l)
    \/ \E l \in Layouts : AssignRow(l)
    \/ \E l \in Layouts : ExposePublic(l)
    \/ \E l \in Layouts : Resolve(l)
    \/ \E l \in Layouts : Verify(l)

SpecForge == InitForge /\ [][NextForge]_vars

\* ================================================================ claims
\* The recurrence f(0) = a, f(1) = b, f(i) = f(i-1) + f(i-2), in the field.
RECURSIVE Fib(_, _, _)
Fib(a, b, i) ==
    IF i = 0 THEN a % FieldModulus
    ELSE IF i = 1 THEN b % FieldModulus
    ELSE (Fib(a, b, i - 1) + Fib(a, b, i - 2)) % FieldModulus

\* The index of the term of the sequence a cell of the layout holds.
TermOf(l, cell) ==
    IF l = "wide" THEN cell[2] + cell[1] ELSE (cell[2] \div 3) + (cell[2] % 3)

Built(l) == pc[l] \in {"synthesized", "checked"}
SeedsKnown == circuit.a.known /\ circuit.b.known
SeedsUnknown == ~circuit.a.known /\ ~circuit.b.known
AssignedRows(l) == {c[2] : c \in DOMAIN tbl[l]}

\* The values of the cells bound to public index 0.
Exposed(l) == {tbl[l][b[1]] : b \in {x \in binding[l] : x[2] = 0}}

\* C1: for every known seed pair and either layout, honest synthesis binds
\* exactly one cell to public index 0, that cell holds the 10th term f(9) of
\* the recurrence, and the check against [f(9)] is Satisfied; for seeds 1, 1
\* the value is 55 and the check against [55] is Satisfied.
C1_HonestOutputIsTenthTerm ==
    \A l \in Layouts :
      (SeedsKnown /\ pc[l] # "start") =>
        LET f9 == Fib(circuit.a.val, circuit.b.val, 9) IN
        /\ pc[l] # "failed"
        /\ Built(l) =>
             /\ Cardinality(binding[l]) = 1
             /\ Exposed(l) = {Known(f9)}
             /\ (circuit.a.val = 1 /\ circuit.b.val = 1) => Exposed(l) = {Known(55)}
        /\ (pc[l] = "checked" /\ instance = <<f9>>) => Satisfied(report[l])
        /\ (pc[l] = "checked" /\ instance = <<55>>
              /\ circuit.a.val = 1 /\ circuit.b.val = 1) => Satisfied(report[l])

C1_Witness ==
    /\ circuit = [a |-> Known(1), b |-> Known(1)]
    /\ instance = <<55>>
    /\ \A l \in Layouts : pc[l] = "checked" /\ Satisfied(report[l])
                          /\ Exposed(l) = {Known(55)}

\* C2: for seeds 1, 1 and either layout, the check against a one-element
\* public input [v] with v different from 55 reports exactly
\* InstanceMismatch(0) and nothing else: no gate violation at any row.
C2_WrongInputIsOneMismatch ==
    \A l \in Layouts :
      (/\ pc[l] = "checked"
       /\ circuit = [a |-> Known(1), b |-> Known(1)]
       /\ Len(instance) = 1 /\ instance[1] # 55)
      => report[l] = [NoReport EXCEPT !.InstanceMismatch = {0}]

C2_Witness ==
    /\ circuit = [a |-> Known(1), b |-> Known(1)]
    /\ instance = <<54>>
    /\ \A l \in Layouts :
         /\ pc[l] = "checked"
         /\ report[l].InstanceMismatch = {0}
         /\ report[l].ConstraintNotSatisfied = {}

\* C3: run side by side on the same seeds and public input, the two layouts
\* expose the same value at public index 0, and the checker returns
\* Satisfied for one exactly when it returns Satisfied for the other.
C3_LayoutsAgree ==
    /\ (Built("wide") /\ Built("narrow")) => Exposed("wide") = Exposed("narrow")
    /\ (pc["wide"] = "checked" /\ pc["narrow"] = "checked") =>
         (Satisfied(report["wide"]) <=> Satisfied(report["narrow"]))

C3_Witness ==
    /\ SeedsKnown
    /\ circuit.a.val # circuit.b.val
    /\ Len(instance) = 1
    /\ pc["wide"] = "checked" /\ pc["narrow"] = "checked"
    /\ Exposed("wide") = Exposed("narrow") /\ Exposed("wide") # {}
    /\ ~Satisfied(report["wide"]) /\ ~Satisfied(report["narrow"])

\* C4: after one assigned cell of an honest table (known seeds) is mutated
\* to a different value, selectors unchanged, the gate violations reported
\* are exactly the selector-active rows whose gate queries that cell, and
\* the copy violations reported are exactly the copy constraints touching it.
C4_TamperFlagsExactlyTouched ==
    \A l \in Layouts :
      (pc[l] = "checked" /\ tampered[l] # {} /\ disabled[l] = {}) =>
        \A x \in tampered[l] :
          /\ report[l].ConstraintNotSatisfied =
                {r \in sel[l] : x \in QueryCells(l, r)}
          /\ report[l].CopyConstraintViolated =
                {p \in copies[l] : x = p[1] \/ x = p[2]}
          /\ report[l].UnresolvedWitness = {}
          /\ report[l].UnresolvedCopy = {}

C4_Witness ==
    \E l \in Layouts :
      /\ pc[l] = "checked" /\ disabled[l] = {}
      /\ \E x \in tampered[l] :
           /\ Cardinality(report[l].ConstraintNotSatisfied) = 1
           /\ Cardinality(report[l].CopyConstraintViolated) = 2
           /\ \A p \in report[l].CopyConstraintViolated : x = p[1] \/ x = p[2]

\* C5: the checker reports ConstraintNotSatisfied only at rows whose
\* selector is active: a row whose selector was disabled is never reported,
\* also when its queried cells were mutated so that a + b - c is not zero.
C5_SelectorGates ==
    \A l \in Layouts :
      pc[l] = "checked" =>
        /\ report[l].ConstraintNotSatisfied \subseteq sel[l]
        /\ report[l].ConstraintNotSatisfied \cap disabled[l] = {}

C5_Witness ==
    \E l \in Layouts :
      /\ pc[l] = "checked"
      /\ \E r \in disabled[l] :
           /\ tampered[l] \cap QueryCells(l, r) # {}
           /\ (tbl[l][QueryCell(l, r, "a")].val + tbl[l][QueryCell(l, r, "b")].val
                 + FieldModulus - tbl[l][QueryCell(l, r, "c")].val) % FieldModulus # 0
           /\ r \notin report[l].ConstraintNotSatisfied

\* C6 (as stated): in the narrow layout, after synthesis the selector is
\* enabled at every assigned row except the final two.
C6_SelectorAllButLastTwo ==
    Built("narrow") =>
      sel["narrow"] = {r \in AssignedRows("narrow") :
                          r + 2 <= Max(AssignedRows("narrow"))}

\* C6 (amended): in the narrow layout, after synthesis the selector is
\* enabled exactly at the first row of each three-row region (rows 0, 3,
\* ..., 21) and at no other assigned row, and every cell the gate queries
\* from an enabled row (rotations 0, 1, 2) is an assigned cell.
C6_SelectorAtRegionBases ==
    Built("narrow") =>
      /\ sel["narrow"] =
            {regions["narrow"][i].base : i \in 1 .. Len(regions["narrow"])}
      /\ sel["narrow"] = {3 * j : j \in 0 .. 7}
      /\ AssignedRows("narrow") = 0 .. 23
      /\ \A r \in sel["narrow"] : QueryCells("narrow", r) \subseteq DOMAIN tbl["narrow"]

C6_Witness ==
    /\ pc["narrow"] = "checked"
    /\ Cardinality(sel["narrow"]) = 8
    /\ 21 \in sel["narrow"] /\ 1 \notin sel["narrow"] /\ 20 \notin sel["narrow"]

\* C7: a table over the synthesized layout (its selectors, copy constraints
\* and instance binding) on which the checker reports no gate violation and
\* no copy violation has every filled cell on the recurrence started by the
\* first region's a and b cells; when the checker returns Satisfied against
\* [v], every cell is filled and v is the 10th term f(9) of that recurrence.
C7_ConstraintsDetermineOutput ==
    \A l \in Layouts :
      (Built(l) /\ disabled[l] = {} /\ \A c \in SeedCells(l) : tbl[l][c].known) =>
        LET rep == Check(l, tbl[l], sel[l], copies[l], binding[l], instance)
            a0 == tbl[l][CellOf(l, 0, "a")].val
            b0 == tbl[l][CellOf(l, 0, "b")].val
        IN
        /\ (rep.ConstraintNotSatisfied = {} /\ rep.CopyConstraintViolated = {}) =>
             \A c \in DOMAIN tbl[l] :
               tbl[l][c].known => tbl[l][c].val = Fib(a0, b0, TermOf(l, c))
        /\ (pc[l] = "checked" /\ Satisfied(report[l])) =>
             /\ OpenCells(tbl[l]) = {}
             /\ instance = <<Fib(a0, b0, 9)>>

C7_Witness ==
    \E l \in Layouts :
      /\ SeedsUnknown
      /\ pc[l] = "checked" /\ Satisfied(report[l])
      /\ Cardinality(DOMAIN tbl[l]) = 24
      /\ tbl[l][CellOf(l, 0, "a")] = Known(1)
      /\ tbl[l][CellOf(l, 0, "b")] = Known(0)
      /\ instance = <<21>>

\* C8: in every state of synthesis no write hit a cell written before
\* (CellAlreadyAssigned never arises, and the table holds three cells per
\* region placed), and the regions lie at successive, non-overlapping bases
\* in call order, each assigned cell inside exactly one of them.
C8_CellsWrittenOnce ==
    \A l \in Layouts :
      LET regs == regions[l] IN
      /\ err[l] # "CellAlreadyAssigned"
      /\ Cardinality(DOMAIN tbl[l]) = 3 * Len(regs)
      /\ \A i \in 1 .. Len(regs) :
           /\ regs[i].base = (IF i = 1 THEN 0 ELSE regs[i - 1].base + regs[i - 1].height)
           /\ \A j \in 1 .. Len(regs) :
                i < j => regs[i].base + regs[i].height <= regs[j].base
      /\ \A c \in DOMAIN tbl[l] :
           Cardinality({i \in 1 .. Len(regs) :
                          /\ regs[i].base <= c[2]
                          /\ c[2] < regs[i].base + regs[i].height}) = 1

C8_Witness ==
    /\ pc["wide"] = "loop" /\ Len(regions["wide"]) = 5
    /\ pc["narrow"] = "synthesized" /\ Len(regions["narrow"]) = 8
    /\ Cardinality(DOMAIN tbl["narrow"]) = 24

\* C9: with both seeds unknown, synthesis of either layout does not fail
\* and every advice cell it assigns is unknown; the check of that table
\* reports every selector-active row as UnresolvedWitness and no row as
\* ConstraintNotSatisfied.
C9_UnknownSeedsStayOpen ==
    \A l \in Layouts :
      SeedsUnknown =>
        /\ pc[l] # "failed"
        /\ \A c \in DOMAIN tbl[l] : ~tbl[l][c].known
        /\ pc[l] = "checked" =>
             /\ report[l].UnresolvedWitness = sel[l]
             /\ report[l].ConstraintNotSatisfied = {}

C9_Witness ==
    /\ SeedsUnknown
    /\ \A l \in Layouts :
         /\ pc[l] = "checked"
         /\ Cardinality(DOMAIN tbl[l]) = 24
         /\ Cardinality(report[l].UnresolvedWitness) = 8

\* C10: the wide layout runs on 2^4 = 16 rows and the narrow layout on
\* 2^5 = 32 rows; RowDomainTooSmall never arises, and every row synthesis
\* writes and every row the gate reads from a selector-active row lies
\* inside the domain.
C10_RowsInsideDomain ==
    /\ DomainSize("wide") = 16
    /\ DomainSize("narrow") = 32
    /\ \A l \in Layouts :
         /\ err[l] # "RowDomainTooSmall"
         /\ AssignedRows(l) \subseteq Rows(l)
         /\ \A r \in sel[l] : \A q \in QueryCells(l, r) : q[2] \in Rows(l)

C10_Witness ==
    /\ Built("wide") /\ Max(AssignedRows("wide")) = 7
    /\ Built("narrow") /\ Max(AssignedRows("narrow")) = 23
    /\ 21 \in sel["narrow"]

====
